---- MODULE Spec2Model ----
(***************************************************************************)
(* Model of companydotcom/company-core:                                    *)
(*   - batchPutIntoDynamoDb (src/src/lib/dynamo.js): chunked batch write   *)
(*     with retry of the unprocessed remainder and linear backoff;         *)
(*   - publish / parse (src/src/lib/eventStream.js) and withEventStream    *)
(*     (src/unnamed/part_002, imported as ./lib/helper).                   *)
(***************************************************************************)
EXTENDS Integers, Sequences, FiniteSets, TLC

(***************************************************************************)
(* Program constants and model bounds                                      *)
(***************************************************************************)
\* dynamo.js:7   const batchWriteRecordsLimit = 25
batchWriteRecordsLimit == 25
\* dynamo.js:95  backoff = 1000
DefaultBackoff == 1000
\* dynamo.js:138 backoff + 1000
BackoffStep == 1000

\* largest input record list of a top-level call
MaxRecs == 51
\* the store stops reporting unprocessed items once this round is reached
MaxRounds == 3
\* largest input record list of the runs checked for liveness
MaxLiveRecs == 27

\* initial backoff values a caller passes (the default and an explicit one)
Backoffs == {DefaultBackoff, 250}
\* request-level errors of the store client
StoreErrors == {"AccessDeniedException", "NetworkingError"}

VARIABLES
  \* ---- batchPutIntoDynamoDb ----
  pc,                 \* position of the (recursive) call chain
  input,              \* recs of the top-level call
  backoff0,           \* backoff of the top-level call
  recs,               \* recs of the current round
  backoff,            \* backoff parameter of the current round
  round,              \* number of the current round (1 = top-level call)
  preparedRecords,    \* dynamo.js:98, consumed by splice
  bulkRequests,       \* dynamo.js:103, with the state of every promise
  unprocessedRecords, \* dynamo.js:122
  sleeps,             \* delays passed to sleep(), in order
  issued,             \* number of batchWriteItem requests issued so far
  accepted,           \* records the store has persisted
  result,             \* value the call chain resolved with
  thrown,             \* error the call chain rejected with
  storeMode,          \* environment: "throttling" or "healthy"
  \* ---- withEventStream / publish ----
  caller,             \* which entry point the run exercises
  event,              \* inbound envelope handed to withEventStream
  pubArgs,            \* message and attributes publish was called with
  espc,               \* position of withEventStream
  message,            \* part_002:8
  attributes,         \* part_002:7
  handlerCalls,       \* arguments of every eventHandler invocation
  handlerOutcome,     \* how the handler settled
  pubpc,              \* position of publish
  snsSent,            \* params of every sns.publish request
  pubReturn,          \* value publish resolved with
  esReturn,           \* value withEventStream resolved with
  esThrown            \* error withEventStream rejected with

bvars == <<pc, input, backoff0, recs, backoff, round, preparedRecords,
           bulkRequests, unprocessedRecords, sleeps, issued, accepted,
           result, thrown, storeMode>>

evars == <<caller, event, pubArgs, espc, message, attributes, handlerCalls,
           handlerOutcome, pubpc, snsSent, pubReturn, esReturn, esThrown>>

vars == <<bvars, evars>>

(***************************************************************************)
(* Helpers                                                                 *)
(***************************************************************************)
Min(a, b) == IF a < b THEN a ELSE b

Range(s) == {s[i] : i \in 1..Len(s)}

\* DynamoDB.Converter.marshall / unmarshall: a record becomes a typed
\* attribute value and back
Marshall(record) == [N |-> record]

Unmarshall(item) == item.N

\* dynamo.js:98-101
PrepareRecord(record) == [PutRequest |-> [Item |-> Marshall(record)]]

\* mutant: the unprocessed item is rebuilt into a record that was never sent
UnprocessedRecFabricated(unprocessedRec) ==
  Unmarshall(unprocessedRec.PutRequest.Item) + 1

\* dynamo.js:128-130
UnprocessedRec(unprocessedRec) == Unmarshall(unprocessedRec.PutRequest.Item)

\* mutant: the chunk is cut one past the limit
SpliceHeadOneMore(s, n) == SubSeq(s, 1, Min(n + 1, Len(s)))

\* mutant: splice removes one element more than the chunk holds
SpliceRestDropsOne(s, n) == SubSeq(s, Min(n, Len(s)) + 2, Len(s))

\* Array.prototype.splice(0, n): the removed head and what is left
SpliceHead(s, n) == SubSeq(s, 1, Min(n, Len(s)))

SpliceRest(s, n) == SubSeq(s, Min(n, Len(s)) + 1, Len(s))

\* dynamo.js:122-133: the unprocessed records of one response
ResultDatumUnprocessed(resultDatum) ==
  IF /\ resultDatum.hasUnprocessedItems
     /\ resultDatum.hasTable
     /\ Len(resultDatum.items) > 0
  THEN [i \in 1..Len(resultDatum.items) |-> UnprocessedRec(resultDatum.items[i])]
  ELSE <<>>

\* mutant: the remainders are concatenated against the chunk order
RECURSIVE ReduceConcatReversed(_)
ReduceConcatReversed(arrays) ==
  IF Len(arrays) = 1 THEN arrays[1]
  ELSE arrays[Len(arrays)]
         \o ReduceConcatReversed(SubSeq(arrays, 1, Len(arrays) - 1))

\* dynamo.js:134: reduce((output, currentArray) => output.concat(currentArray))
\* without an initial value, on a non-empty array
RECURSIVE ReduceConcat(_)
ReduceConcat(arrays) ==
  IF Len(arrays) = 1 THEN arrays[1]
  ELSE ReduceConcat(SubSeq(arrays, 1, Len(arrays) - 1)) \o arrays[Len(arrays)]

\* reduce of an empty array with no initial value throws a TypeError
ReduceThrows(arrays) == Len(arrays) = 0

(***************************************************************************)
(* The store (environment)                                                 *)
(***************************************************************************)
NoResponse == [hasUnprocessedItems |-> FALSE, hasTable |-> FALSE, items |-> <<>>]

\* remainders the store may report for a chunk: nothing, everything, only
\* the first or only the last put request
Remainders(items) ==
  {<<>>, items, <<items[1]>>, <<items[Len(items)]>>}

\* responses with nothing unprocessed, in the three shapes the code tests
CleanResponses ==
  { [hasUnprocessedItems |-> FALSE, hasTable |-> FALSE, items |-> <<>>],
    [hasUnprocessedItems |-> TRUE,  hasTable |-> FALSE, items |-> <<>>],
    [hasUnprocessedItems |-> TRUE,  hasTable |-> TRUE,  items |-> <<>>] }

ThrottledResponses(items) ==
  { [hasUnprocessedItems |-> TRUE, hasTable |-> TRUE, items |-> rem] :
      rem \in Remainders(items) \ {<<>>} }

MayThrottle == storeMode = "throttling" /\ round < MaxRounds

Responses(items) ==
  CleanResponses \cup (IF MayThrottle THEN ThrottledResponses(items) ELSE {})

(***************************************************************************)
(* batchPutIntoDynamoDb                                                    *)
(***************************************************************************)
InputRecs(n) == [i \in 1..n |-> i]

InitUpTo(maxRecs) ==
  /\ pc = "idle"
  /\ input \in {InputRecs(n) : n \in 0..maxRecs}
  /\ backoff0 \in Backoffs
  /\ recs = <<>>
  /\ backoff = 0
  /\ round = 0
  /\ preparedRecords = <<>>
  /\ bulkRequests = <<>>
  /\ unprocessedRecords = <<>>
  /\ sleeps = <<>>
  /\ issued = 0
  /\ accepted = {}
  /\ result = "none"
  /\ thrown = "none"
  /\ storeMode = "throttling"

\* dynamo.js:94-103: entry of one invocation (top-level or recursive)
Enter(rs, b) ==
  /\ recs' = rs
  /\ backoff' = b
  /\ round' = round + 1
  /\ preparedRecords' = [i \in 1..Len(rs) |-> PrepareRecord(rs[i])]
  /\ bulkRequests' = <<>>
  /\ unprocessedRecords' = <<>>
  /\ pc' = "split"

\* the top-level call
Call ==
  /\ pc = "idle"
  /\ Enter(input, backoff0)
  /\ UNCHANGED evars
  /\ UNCHANGED <<input, backoff0, sleeps, issued, accepted, result, thrown,
                 storeMode>>

\* dynamo.js:108-116: one iteration of the while loop
IssueChunk ==
  /\ pc = "split"
  /\ Len(preparedRecords) > 0
  /\ bulkRequests' = Append(bulkRequests,
        [items |-> SpliceHead(preparedRecords, batchWriteRecordsLimit),
         state |-> "pending",
         response |-> NoResponse,
         error |-> "none"])
  /\ preparedRecords' = SpliceRest(preparedRecords, batchWriteRecordsLimit)
  /\ issued' = issued + 1
  /\ UNCHANGED evars
  /\ UNCHANGED <<pc, input, backoff0, recs, backoff, round,
                 unprocessedRecords, sleeps, accepted, result, thrown,
                 storeMode>>

\* mutant: the responses are awaited before every chunk has been issued
AwaitAllEarly ==
  /\ pc = "split"
  /\ Len(bulkRequests) > 0
  /\ pc' = "await"
  /\ UNCHANGED evars
  /\ UNCHANGED <<input, backoff0, recs, backoff, round, preparedRecords,
                 bulkRequests, unprocessedRecords, sleeps, issued, accepted,
                 result, thrown, storeMode>>

\* dynamo.js:108,121: the loop ends and the call awaits Promise.all
AwaitAll ==
  /\ pc = "split"
  /\ Len(preparedRecords) = 0
  /\ pc' = "await"
  /\ UNCHANGED evars
  /\ UNCHANGED <<input, backoff0, recs, backoff, round, preparedRecords,
                 bulkRequests, unprocessedRecords, sleeps, issued, accepted,
                 result, thrown, storeMode>>

\* the store answers request i with a response: the put requests it does not
\* report back are persisted
StoreResolve ==
  /\ pc \in {"await", "failed"}
  /\ \E i \in 1..Len(bulkRequests) :
       /\ bulkRequests[i].state = "pending"
       /\ \E resp \in Responses(bulkRequests[i].items) :
            /\ bulkRequests' = [bulkRequests EXCEPT ![i].state = "resolved",
                                                    ![i].response = resp]
            /\ accepted' = accepted \cup
                 ({UnprocessedRec(p) : p \in Range(bulkRequests[i].items)}
                    \ {UnprocessedRec(p) : p \in Range(resp.items)})
  /\ UNCHANGED evars
  /\ UNCHANGED <<pc, input, backoff0, recs, backoff, round, preparedRecords,
                 unprocessedRecords, sleeps, issued, result, thrown,
                 storeMode>>

\* mutant: a rejected request is swallowed
RejectOutcomeSwallowed(err) == UNCHANGED <<pc, thrown>>

\* the outcome of a rejected promise of bulkRequests at dynamo.js:121,141-143:
\* the first rejection rejects Promise.all and the call rethrows it
RejectOutcome(err) ==
  IF pc = "await"
  THEN pc' = "failed" /\ thrown' = err
  ELSE UNCHANGED <<pc, thrown>>

\* the store client fails request i with a request-level error
StoreReject ==
  /\ pc \in {"await", "failed"}
  /\ storeMode = "throttling"
  /\ \E i \in 1..Len(bulkRequests), err \in StoreErrors :
       /\ bulkRequests[i].state = "pending"
       /\ bulkRequests' = [bulkRequests EXCEPT ![i].state = "rejected",
                                               ![i].error = err]
       /\ RejectOutcome(err)
  /\ UNCHANGED evars
  /\ UNCHANGED <<input, backoff0, recs, backoff, round, preparedRecords,
                 unprocessedRecords, sleeps, issued, accepted, result,
                 storeMode>>

\* mutant: the retry test is off by one and an empty remainder is retried
ShouldRetryAlways(unprocessed) == Len(unprocessed) >= 0

\* dynamo.js:135
ShouldRetry(unprocessed) == Len(unprocessed) > 0

\* dynamo.js:122-134
GatherUnprocessed(requests) ==
  ReduceConcat([i \in 1..Len(requests) |->
                  ResultDatumUnprocessed(requests[i].response)])

\* dynamo.js:121-143: Promise.all resolved; collect the remainder and either
\* start the backoff sleep or return true
Gather ==
  /\ pc = "await"
  /\ \A i \in 1..Len(bulkRequests) : bulkRequests[i].state = "resolved"
  /\ IF ReduceThrows(bulkRequests)
     THEN /\ pc' = "failed"
          /\ thrown' = "TypeError"
          /\ UNCHANGED <<unprocessedRecords, sleeps, result>>
     ELSE LET unprocessed == GatherUnprocessed(bulkRequests) IN
          /\ unprocessedRecords' = unprocessed
          /\ IF ShouldRetry(unprocessed)
             THEN /\ pc' = "sleep"
                  /\ sleeps' = Append(sleeps, backoff)
                  /\ UNCHANGED <<result, thrown>>
             ELSE /\ pc' = "done"
                  /\ result' = "true"
                  /\ UNCHANGED <<sleeps, thrown>>
  /\ UNCHANGED evars
  /\ UNCHANGED <<input, backoff0, recs, backoff, round, preparedRecords,
                 bulkRequests, issued, accepted, storeMode>>

\* mutant: exponential instead of linear backoff
NextBackoffDoubled(b) == b * 2

\* dynamo.js:138: the backoff of the next round
NextBackoff(b) == b + BackoffStep

\* mutant: a retry ceiling of one retry round
RetryWithCeiling ==
  /\ pc = "sleep"
  /\ round < 2
  /\ Enter(unprocessedRecords, NextBackoff(backoff))
  /\ UNCHANGED evars
  /\ UNCHANGED <<input, backoff0, sleeps, issued, accepted, result, thrown,
                 storeMode>>

\* dynamo.js:136-138: the sleep ends and the call recurses
Retry ==
  /\ pc = "sleep"
  /\ Enter(unprocessedRecords, NextBackoff(backoff))
  /\ UNCHANGED evars
  /\ UNCHANGED <<input, backoff0, sleeps, issued, accepted, result, thrown,
                 storeMode>>

\* environment: the throttling ends
StoreRecover ==
  /\ storeMode = "throttling"
  /\ pc \in {"split", "await", "sleep"}
  /\ storeMode' = "healthy"
  /\ UNCHANGED evars
  /\ UNCHANGED <<pc, input, backoff0, recs, backoff, round, preparedRecords,
                 bulkRequests, unprocessedRecords, sleeps, issued, accepted,
                 result, thrown>>

(***************************************************************************)
(* JavaScript values of the event stream: type, toString() text and        *)
(* JSON.stringify text                                                     *)
(***************************************************************************)
Str(text) == [t |-> "string", str |-> text, json |-> "\"" \o text \o "\""]

Num(text) == [t |-> "number", str |-> text, json |-> text]

Arr == [t |-> "array", str |-> "x,y", json |-> "[\"x\",\"y\"]"]

Obj == [t |-> "object", str |-> "[object Object]", json |-> "{}"]

Bool == [t |-> "boolean", str |-> "true", json |-> "true"]

Undefined == [t |-> "undefined", str |-> "", json |-> ""]

\* a key the object does not have
Absent == [t |-> "absent", str |-> "", json |-> ""]

\* JSON.parse: texts it rejects with a SyntaxError, and the value otherwise
JsonThrows(text) == text \notin {"7", Arr.json, "{}", "true"}

JsonParse(text) ==
  CASE text = "7" -> Num("7")
    [] text = Arr.json -> Arr
    [] text = "{}" -> Obj
    [] text = "true" -> Bool

\* mutant: every value that is no number or array is sent as a String
GetAttrTypeLenient(val) ==
  CASE val.t = "number" -> "Number"
    [] val.t = "array" -> "String.Array"
    [] OTHER -> "String"

\* eventStream.js:12-17; "throw" stands for the thrown Error
GetAttrType(val) ==
  CASE val.t = "string" -> "String"
    [] val.t = "number" -> "Number"
    [] val.t = "array" -> "String.Array"
    [] OTHER -> "throw"

\* part_002:25-34, the keys of the outbound attributes in insertion order
OutKeys == <<"emitter", "eventId", "triggerEventId", "entity", "entityId",
             "operation", "metadata", "status">>

OutKeySet == Range(OutKeys)

\* eventStream.js:19-22: the first key, in Object.keys order, whose value
\* getAttrType rejects (0 when there is none)
FirstInvalid(attrs) ==
  LET bad == {i \in 1..Len(OutKeys) :
                attrs[OutKeys[i]] # Absent /\ GetAttrType(attrs[OutKeys[i]]) = "throw"}
  IN IF bad = {} THEN 0 ELSE CHOOSE i \in bad : \A j \in bad : i <= j

ParseAttributesThrows(attrs) == FirstInvalid(attrs) # 0

\* eventStream.js:16: the Error getAttrType throws
InvalidTypeError(val) ==
  [kind |-> "error", error |-> "Invalid MessageAttribute type", typeof |-> val.t]

\* eventStream.js:19-30
ParseAttributes(attrs) ==
  [k \in OutKeySet |->
     IF attrs[k] = Absent THEN [DataType |-> "absent", StringValue |-> ""]
     ELSE LET type == GetAttrType(attrs[k]) IN
          [DataType |-> type,
           StringValue |-> IF type = "String.Array" THEN attrs[k].json
                           ELSE attrs[k].str]]

\* eventStream.js:32-35
ParseSnsTypeThrows(val, type) == type # "String" /\ JsonThrows(val)

ParseSnsType(val, type) == IF type = "String" THEN Str(val) ELSE JsonParse(val)

(***************************************************************************)
(* Inbound envelopes                                                       *)
(***************************************************************************)
InKeys == {"eventId", "entity", "entityId", "operation"}

AbsentCell == [Type |-> "absent", Value |-> ""]

\* attribute cells of an inbound envelope: a string, a number, an array, a
\* number whose text is no JSON, and an array type whose text is an object
AttrCells ==
  { [Type |-> "String", Value |-> "abc"],
    [Type |-> "Number", Value |-> "7"],
    [Type |-> "String.Array", Value |-> Arr.json],
    [Type |-> "Number", Value |-> "abc"],
    [Type |-> "String.Array", Value |-> "{}"] }

MsgFull == "{context:{},metadata:{eventType:'transition'}}"

MsgNoEventType == "{context:{},metadata:{}}"

MsgNoMetadata == "{context:{}}"

MsgPlainText == "hello"

MessageTexts == {MsgFull, MsgNoEventType, MsgNoMetadata, MsgPlainText}

Events ==
  [Message : MessageTexts,
   MessageAttributes : [InKeys -> AttrCells \cup {AbsentCell}]]

\* let message / let attributes before the destructuring assignment
MessageUndefined == [t |-> "undefined", hasMetadata |-> FALSE, eventType |-> Undefined]

AttributesUndefined == [k \in InKeys |-> [t |-> "unassigned", str |-> "", json |-> ""]]

\* util.js:8-14 on the message texts: the parsed object, or the text itself
\* when JSON.parse throws
ParseJson(v) ==
  CASE v = MsgFull ->
         [t |-> "object", hasMetadata |-> TRUE, eventType |-> Str("transition")]
    [] v = MsgNoEventType ->
         [t |-> "object", hasMetadata |-> TRUE, eventType |-> Undefined]
    [] v = MsgNoMetadata ->
         [t |-> "object", hasMetadata |-> FALSE, eventType |-> Undefined]
    [] OTHER ->
         [t |-> "string", hasMetadata |-> FALSE, eventType |-> Undefined]

\* eventStream.js:130-143
EsParseThrows(ev) ==
  \E k \in InKeys :
    /\ ev.MessageAttributes[k] # AbsentCell
    /\ ParseSnsTypeThrows(ev.MessageAttributes[k].Value, ev.MessageAttributes[k].Type)

EsParse(ev) ==
  [message |-> ParseJson(ev.Message),
   attributes |->
     [k \in InKeys |->
        IF ev.MessageAttributes[k] = AbsentCell THEN Absent
        ELSE ParseSnsType(ev.MessageAttributes[k].Value,
                          ev.MessageAttributes[k].Type)]]

\* reading a property of the parsed attributes
Prop(attrs, k) == IF attrs[k] = Absent THEN Undefined ELSE attrs[k]

(***************************************************************************)
(* publish (eventStream.js:60-76)                                          *)
(***************************************************************************)
NoArgs == [message |-> [status |-> "none", payload |-> "none"],
           attributes |-> [k \in OutKeySet |-> Absent]]

NoReturn == [kind |-> "none", error |-> "", typeof |-> ""]

Receipt == [kind |-> "receipt", error |-> "", typeof |-> ""]

SnsError == [kind |-> "error", error |-> "SNS failure", typeof |-> ""]

\* eventStream.js:63-68
PublishParams(msg, attrs) ==
  [Message |-> [json |-> msg], MessageAttributes |-> ParseAttributes(attrs)]

\* eventStream.js:61-76 up to the await of sns.publish: a throw of
\* parseAttributes is caught and the error is returned
PublishEnter(msg, attrs) ==
  IF ParseAttributesThrows(attrs)
  THEN /\ pubpc' = "returned"
       /\ pubReturn' = InvalidTypeError(attrs[OutKeys[FirstInvalid(attrs)]])
       /\ snsSent' = snsSent
  ELSE /\ pubpc' = "sending"
       /\ pubReturn' = pubReturn
       /\ snsSent' = Append(snsSent, PublishParams(msg, attrs))

\* publish called by a caller of the library
PublishCall ==
  /\ caller = "publish"
  /\ pubpc = "idle"
  /\ PublishEnter(pubArgs.message, pubArgs.attributes)
  /\ UNCHANGED <<caller, event, pubArgs, espc, message, attributes,
                 handlerCalls, handlerOutcome, esReturn, esThrown>>
  /\ UNCHANGED bvars

\* withEventStream returns the promise of publish: it settles as publish does
EsSettles(value) ==
  IF espc = "publishing"
  THEN espc' = "returned" /\ esReturn' = value
  ELSE UNCHANGED <<espc, esReturn>>

\* eventStream.js:69-71: sns.publish succeeded
SnsResolve ==
  /\ pubpc = "sending"
  /\ pubpc' = "returned"
  /\ pubReturn' = Receipt
  /\ EsSettles(Receipt)
  /\ UNCHANGED <<caller, event, pubArgs, message, attributes, handlerCalls,
                 handlerOutcome, snsSent, esThrown>>
  /\ UNCHANGED bvars

\* eventStream.js:72-75: sns.publish failed, the error is returned
SnsReject ==
  /\ pubpc = "sending"
  /\ pubpc' = "returned"
  /\ pubReturn' = SnsError
  /\ EsSettles(SnsError)
  /\ UNCHANGED <<caller, event, pubArgs, message, attributes, handlerCalls,
                 handlerOutcome, snsSent, esThrown>>
  /\ UNCHANGED bvars

(***************************************************************************)
(* withEventStream (part_002:4-60)                                         *)
(***************************************************************************)
HandlerResults == {"resultA", "resultB"}

HandlerErrors == {"HandlerError"}

\* part_002:21-22,32 and 42-43,55: message.context, message.metadata and
\* message.metadata.eventType throw a TypeError on an unassigned message or
\* a message without metadata
EnvelopeThrows(msg) == msg.t = "undefined" \/ ~msg.hasMetadata

\* part_002:20-34 and 41-57
EnvelopeMessage(status, payload) == [status |-> status, payload |-> payload]

EnvelopeAttributes(msg, attrs, status) ==
  [k \in OutKeySet |->
     CASE k = "emitter" -> Str("tile-event-service")
       [] k = "eventId" -> Str("uuid")
       [] k = "triggerEventId" -> Prop(attrs, "eventId")
       [] k = "metadata" -> msg.eventType
       [] k = "status" -> Str(status)
       [] OTHER -> Prop(attrs, k)]

\* part_002:18-35 / 39-58: return es.publish(...)
EsPublish(msg, attrs, status, payload) ==
  LET args == [message |-> EnvelopeMessage(status, payload),
               attributes |-> EnvelopeAttributes(msg, attrs, status)]
  IN /\ pubArgs' = args
     /\ PublishEnter(args.message, args.attributes)
     /\ IF ParseAttributesThrows(args.attributes)
        THEN /\ espc' = "returned"
             /\ esReturn' = InvalidTypeError(
                  args.attributes[OutKeys[FirstInvalid(args.attributes)]])
        ELSE /\ espc' = "publishing"
             /\ esReturn' = esReturn
     /\ esThrown' = esThrown

\* part_002:36-59: the catch block, entered with err
CatchBlock(msg, attrs, err) ==
  IF EnvelopeThrows(msg)
  THEN /\ espc' = "rejected"
       /\ esThrown' = "TypeError"
       /\ UNCHANGED <<pubArgs, pubpc, pubReturn, snsSent, esReturn>>
  ELSE EsPublish(msg, attrs, "fail", [error |-> err])

\* part_002:4-15: the call up to the await of the handler
WithEventStreamCall ==
  /\ caller = "withEventStream"
  /\ espc = "idle"
  /\ IF EsParseThrows(event)
     THEN /\ CatchBlock(message, attributes, "SyntaxError")
          /\ UNCHANGED <<message, attributes, handlerCalls>>
     ELSE /\ message' = EsParse(event).message
          /\ attributes' = EsParse(event).attributes
          /\ handlerCalls' = Append(handlerCalls, EsParse(event))
          /\ espc' = "handler"
          /\ UNCHANGED <<pubArgs, pubpc, pubReturn, snsSent, esReturn, esThrown>>
  /\ UNCHANGED <<caller, event, handlerOutcome>>
  /\ UNCHANGED bvars

\* part_002:15-35: the handler resolved with payload
HandlerReturns ==
  /\ espc = "handler"
  /\ \E payload \in HandlerResults :
       /\ handlerOutcome' = [kind |-> "returned", value |-> payload]
       /\ IF EnvelopeThrows(message)
          THEN CatchBlock(message, attributes, "TypeError")
          ELSE EsPublish(message, attributes, "pass", [result |-> payload])
  /\ UNCHANGED <<caller, event, message, attributes, handlerCalls>>
  /\ UNCHANGED bvars

\* part_002:15,36-59: the handler threw or rejected with err
HandlerThrows ==
  /\ espc = "handler"
  /\ \E err \in HandlerErrors :
       /\ handlerOutcome' = [kind |-> "threw", value |-> err]
       /\ CatchBlock(message, attributes, err)
  /\ UNCHANGED <<caller, event, message, attributes, handlerCalls>>
  /\ UNCHANGED bvars

(***************************************************************************)
(* Specifications                                                          *)
(***************************************************************************)
DefaultEvent ==
  [Message |-> MsgFull,
   MessageAttributes |-> [k \in InKeys |-> [Type |-> "String", Value |-> "abc"]]]

EsIdle ==
  /\ espc = "idle"
  /\ message = MessageUndefined
  /\ attributes = AttributesUndefined
  /\ handlerCalls = <<>>
  /\ handlerOutcome = [kind |-> "none", value |-> "none"]
  /\ pubpc = "idle"
  /\ snsSent = <<>>
  /\ pubReturn = NoReturn
  /\ esReturn = NoReturn
  /\ esThrown = "none"

\* values a caller of publish passes for an attribute
DirectValues == {Str("abc"), Num("7"), Arr, Obj, Bool, Undefined, Absent}

\* attributes of a direct call of publish: two keys vary, the others are
\* not passed
DirectArgs ==
  { [message |-> [status |-> "trigger", payload |-> "p"],
     attributes |-> [k \in OutKeySet |->
                       CASE k = "entity" -> a
                         [] k = "operation" -> b
                         [] OTHER -> Absent]] :
      a \in DirectValues, b \in DirectValues }

Init ==
  /\ InitUpTo(MaxRecs)
  /\ caller = "batchPutIntoDynamoDb"
  /\ event = DefaultEvent
  /\ pubArgs = NoArgs
  /\ EsIdle

LiveInit ==
  /\ InitUpTo(MaxLiveRecs)
  /\ caller = "batchPutIntoDynamoDb"
  /\ event = DefaultEvent
  /\ pubArgs = NoArgs
  /\ EsIdle

EsInit ==
  /\ InitUpTo(0)
  /\ backoff0 = DefaultBackoff
  /\ EsIdle
  /\ \/ caller = "withEventStream" /\ event \in Events /\ pubArgs = NoArgs
     \/ caller = "publish" /\ event = DefaultEvent /\ pubArgs \in DirectArgs

EsNext ==
  \/ WithEventStreamCall
  \/ HandlerReturns
  \/ HandlerThrows
  \/ PublishCall
  \/ SnsResolve
  \/ SnsReject

EsSpec == EsInit /\ [][EsNext]_vars

Next ==
  \/ Call
  \/ IssueChunk
  \/ AwaitAll
  \/ StoreResolve
  \/ StoreReject
  \/ Gather
  \/ Retry
  \/ StoreRecover

Spec == Init /\ [][Next]_vars

\* The event loop runs every continuation that is ready and fires every
\* timer; the store client settles every request it was handed (its own
\* timeouts turn a lost request into a rejection).
LiveSpec ==
  /\ LiveInit
  /\ [][Next]_vars
  /\ WF_vars(Call \/ IssueChunk \/ AwaitAll \/ Gather \/ Retry)
  /\ WF_vars(StoreResolve \/ StoreReject)

(***************************************************************************)
(* Properties of batchPutIntoDynamoDb                                      *)
(***************************************************************************)
InputSet == Range(input)

\* the records of a response's remainder, read off the store's data
RemainderOf(request) == [k \in 1..Len(request.response.items) |->
                           request.response.items[k].PutRequest.Item.N]

RECURSIVE RemaindersUpTo(_)
RemaindersUpTo(n) ==
  IF n = 0 THEN <<>>
  ELSE RemaindersUpTo(n - 1) \o RemainderOf(bulkRequests[n])

\* the remainders of the current round's chunks, in chunk order
RoundRemainder == RemaindersUpTo(Len(bulkRequests))

AllResolved == \A i \in 1..Len(bulkRequests) : bulkRequests[i].state = "resolved"

\* C1: no record is silently dropped. While the call chain runs, every input
\* record is persisted or in the record list of the current round (between
\* rounds: in the remainder the next round starts from); when the call
\* returns true every input record is persisted.
C1_NoRecordDropped ==
  /\ pc \in {"split", "await"} => InputSet \subseteq accepted \cup Range(recs)
  /\ pc = "sleep" => InputSet \subseteq accepted \cup Range(unprocessedRecords)
  /\ pc = "done" => result = "true" /\ InputSet \subseteq accepted
  /\ result = "true" => pc = "done"

C1_Witness ==
  /\ pc = "done"
  /\ round = 3
  /\ Len(input) = MaxRecs
  /\ accepted = InputSet

CeilDiv(n, d) == (n + d - 1) \div d

\* C2: a round over N > 0 records issues exactly ceil(N/B) requests, every
\* chunk but the last holds B records and the last N mod B (B when that is
\* 0); no chunk ever holds more than B records.
C2_ChunkCounts ==
  LET B == batchWriteRecordsLimit
      N == Len(recs)
      n == Len(bulkRequests)
  IN /\ \A i \in 1..n : /\ Len(bulkRequests[i].items) <= B
                        /\ Len(bulkRequests[i].items) >= 1
     /\ (pc \in {"await", "sleep", "done", "failed"} /\ N > 0) =>
          /\ n = CeilDiv(N, B)
          /\ \A i \in 1..(n - 1) : Len(bulkRequests[i].items) = B
          /\ Len(bulkRequests[n].items) = (IF N % B = 0 THEN B ELSE N % B)
     /\ issued >= n

C2_Witness ==
  /\ round = 2
  /\ pc = "await"
  /\ Len(recs) = batchWriteRecordsLimit + 1
  /\ Len(bulkRequests) = 2
  /\ Len(input) = 2 * batchWriteRecordsLimit + 1

FirstRoundClean ==
  /\ round = 1
  /\ Len(bulkRequests) > 0
  /\ \A i \in 1..Len(bulkRequests) :
       /\ bulkRequests[i].state = "resolved"
       /\ Len(bulkRequests[i].response.items) = 0

\* C3: when every chunk request of the first round reports zero unprocessed
\* items, the call returns true after that round: once the responses are
\* gathered the call is done with result true, no sleep has been started and
\* no request beyond the first round's was issued, and nothing follows.
C3_CleanFirstRoundReturns ==
  /\ [](FirstRoundClean /\ pc # "await" =>
          /\ pc = "done"
          /\ result = "true"
          /\ sleeps = <<>>
          /\ issued = CeilDiv(Len(input), batchWriteRecordsLimit))
  /\ [][FirstRoundClean /\ pc = "await" =>
          pc' \in {"await", "done"} /\ issued' = issued /\ sleeps' = sleeps]_vars
  /\ [][pc = "done" => UNCHANGED <<pc, round, issued, sleeps, result>>]_vars

C3_Witness ==
  /\ FirstRoundClean
  /\ pc = "done"
  /\ Len(bulkRequests) = 3

\* C4: a round that ends with a non-empty remainder is followed by one retry
\* round whose record list is the concatenation, in chunk order, of the
\* remainders the chunks of that round reported.
C4_RetryCoversRemainder ==
  /\ [](pc = "sleep" =>
          /\ Len(unprocessedRecords) > 0
          /\ unprocessedRecords = RoundRemainder)
  /\ [](pc \in {"done"} => RoundRemainder = <<>>)
  /\ [][pc = "await" /\ AllResolved /\ pc' # "await" /\ RoundRemainder # <<>>
          => pc' = "sleep"]_vars
  /\ [][pc = "sleep" /\ pc' # "sleep" =>
          /\ pc' = "split"
          /\ round' = round + 1
          /\ recs' = RoundRemainder
          /\ issued' = issued]_vars
  /\ [][round' # round => round' = round + 1 /\ pc \in {"idle", "sleep"}]_vars

\* the scenario: 30 records, chunk 2 reports its 5 records unprocessed, one
\* retry round of those 5 follows after 1000 ms
C4_Witness ==
  /\ Len(input) = 30
  /\ backoff0 = DefaultBackoff
  /\ round = 2
  /\ pc = "done"
  /\ recs = <<26, 27, 28, 29, 30>>
  /\ sleeps = <<1000>>
  /\ backoff = 2000
  /\ issued = 3

\* C5: the delay slept before the k-th retry round is b + 1000 * (k - 1),
\* b the backoff of the top-level call; one sleep precedes each retry round.
C5_LinearBackoff ==
  /\ \A k \in 1..Len(sleeps) : sleeps[k] = backoff0 + 1000 * (k - 1)
  /\ \A k \in 2..Len(sleeps) : sleeps[k] > sleeps[k - 1]
  /\ round >= 1 => Len(sleeps) = (IF pc = "sleep" THEN round ELSE round - 1)
  /\ round >= 1 => backoff = backoff0 + 1000 * (round - 1)

C5_Witness ==
  /\ Len(sleeps) = 2
  /\ backoff0 = 250
  /\ round = 3

Rejected == {i \in 1..Len(bulkRequests) : bulkRequests[i].state = "rejected"}

\* C6: a request-level failure of a chunk aborts the call with that error,
\* unchanged: the step on which the first rejection of a round arrives makes
\* the call fail with the rejection's error, and after the failure no sleep
\* is started, no request is issued and the error stays what it was.
C6_RejectionAborts ==
  /\ [][Rejected = {} /\ round' = round /\ Rejected' # {} =>
          /\ pc' = "failed"
          /\ \E i \in Rejected' : thrown' = bulkRequests'[i].error
          /\ thrown' \in StoreErrors
          /\ issued' = issued
          /\ sleeps' = sleeps]_vars
  /\ [][pc = "failed" =>
          UNCHANGED <<pc, thrown, issued, sleeps, round, result,
                      unprocessedRecords>>]_vars
  /\ [](Rejected # {} => pc = "failed" /\ result = "none")

\* a chunk was rejected while another chunk of the round reported
\* unprocessed items
C6_Witness ==
  /\ pc = "failed"
  /\ round = 2
  /\ Rejected # {}
  /\ \E i \in 1..Len(bulkRequests) :
       bulkRequests[i].state = "resolved" /\ Len(bulkRequests[i].response.items) > 0

\* C7: no retry ceiling, and termination exactly when the store stops
\* reporting a remainder. Once the store has stopped throttling, a call on a
\* non-empty list eventually returns true; it returns true only from a round
\* without remainder; a round with a remainder is always followed, after its
\* sleep, by a further round with a larger delay, whatever the round number.
C7_RetriesUntilClean ==
  /\ (storeMode = "healthy" /\ Len(input) > 0) ~> (pc = "done" /\ result = "true")
  /\ [](pc = "done" => AllResolved /\ RoundRemainder = <<>>)
  /\ [](pc = "await" /\ AllResolved /\ RoundRemainder # <<>> => <>(pc = "sleep"))
  /\ \A k \in 1..MaxRounds :
       (pc = "sleep" /\ round = k) ~> (pc = "split" /\ round = k + 1)
  /\ [][pc = "sleep" /\ pc' # "sleep" => backoff' > backoff]_vars

\* the store throttled two rounds, recovered, and the call returned
C7_Witness ==
  /\ pc = "done"
  /\ result = "true"
  /\ storeMode = "healthy"
  /\ Len(sleeps) = 2

\* number of occurrences of x in the list s
Count(s, x) == Cardinality({i \in 1..Len(s) : s[i] = x})

\* every record occurs in sub at most as often as in whole
SubCollection(sub, whole) ==
  \A x \in Range(sub) : Count(sub, x) <= Count(whole, x)

\* C11: no fabricated records. The record list of every round holds only
\* records of the original input, the remainder gathered from a round is a
\* sub-collection of that round's record list, and the record list of each
\* retry round is a sub-collection of the list of the round before it.
C11_NoFabricatedRecords ==
  /\ [](round >= 1 => SubCollection(recs, input))
  /\ [](pc = "sleep" =>
          /\ SubCollection(unprocessedRecords, recs)
          /\ Range(unprocessedRecords) \subseteq InputSet)
  /\ [][round >= 1 /\ round' # round =>
          /\ SubCollection(recs', recs)
          /\ Len(recs') <= Len(recs)]_vars

\* a third round over a strictly smaller list than the second, which was
\* strictly smaller than the input
C11_Witness ==
  /\ round = 3
  /\ Len(recs) = 2
  /\ Len(input) = MaxRecs
  /\ recs = <<1, 26>>
  /\ pc = "await"

\* the records of the put requests in a list, read off the requests' data
RecordsOf(items) == [k \in 1..Len(items) |-> items[k].PutRequest.Item.N]

RECURSIVE ChunksUpTo(_)
ChunksUpTo(n) ==
  IF n = 0 THEN <<>>
  ELSE ChunksUpTo(n - 1) \o RecordsOf(bulkRequests[n].items)

AllPending == \A i \in 1..Len(bulkRequests) : bulkRequests[i].state = "pending"

\* C12: every round is a scatter/gather. The chunks issued so far, in order,
\* followed by the records not yet issued, are the round's record list
\* (disjoint consecutive slices); no response is taken before the last chunk
\* of the round has been issued; requests are issued only while splitting;
\* and a new round starts only from the sleep, which is entered only when
\* every request of the round has completed and the delay was started.
C12_ScatterGather ==
  /\ [](round >= 1 =>
          ChunksUpTo(Len(bulkRequests)) \o RecordsOf(preparedRecords) = recs)
  /\ [](pc = "split" => AllPending)
  /\ [](pc \in {"await", "sleep", "done"} => Len(preparedRecords) = 0)
  /\ [](pc \in {"sleep", "done"} => AllResolved)
  /\ [][issued' # issued =>
          /\ pc = "split" /\ pc' = "split"
          /\ issued' = issued + 1
          /\ Len(bulkRequests') = Len(bulkRequests) + 1
          /\ AllPending']_vars
  /\ [][~AllPending /\ AllPending' => round' = round + 1]_vars
  /\ [][round >= 1 /\ round' # round =>
          /\ pc = "sleep"
          /\ AllResolved
          /\ Len(sleeps) = round
          /\ sleeps[round] = backoff
          /\ issued' = issued]_vars

\* a retry round in the middle of its scatter: the first chunk is issued
\* and unanswered, the second not yet issued
C12_Witness ==
  /\ round = 2
  /\ pc = "split"
  /\ Len(bulkRequests) = 1
  /\ Len(preparedRecords) = 1
  /\ Len(recs) = batchWriteRecordsLimit + 1
  /\ AllPending

\* C13: called with an empty record list the call issues no write request,
\* performs no backoff sleep, and returns true.
C13_EmptyListReturnsTrue ==
  /\ Len(input) = 0 => issued = 0 /\ sleeps = <<>>
  /\ (Len(input) = 0 /\ pc \in {"done", "failed"}) =>
       /\ pc = "done"
       /\ result = "true"
       /\ thrown = "none"

(***************************************************************************)
(* Properties of withEventStream and publish                               *)
(***************************************************************************)
EsOver == caller = "withEventStream" /\ espc \in {"returned", "rejected"}

Sent(status) == {i \in 1..Len(snsSent) : snsSent[i].Message.json.status = status}

\* C8: every invocation of withEventStream produces exactly one outbound
\* publish, whatever the envelope and the handler outcome: never more than
\* one request is sent, and once the invocation is over exactly one was.
C8_ExactlyOnePublish ==
  /\ Len(snsSent) <= 1
  /\ EsOver => Len(snsSent) = 1

\* C9: withEventStream invokes the handler exactly once with the parsed
\* {message, attributes} and publishes only after the handler settled: one
\* 'pass' envelope carrying the result when the handler returned, one 'fail'
\* envelope carrying the error when it threw, never both.
C9_PassOrFailAfterHandler ==
  /\ snsSent # <<>> => handlerOutcome.kind # "none"
  /\ ~(Sent("pass") # {} /\ Sent("fail") # {})
  /\ EsOver =>
       /\ Len(handlerCalls) = 1
       /\ handlerCalls[1] = EsParse(event)
       /\ handlerOutcome.kind = "returned" =>
            /\ Len(snsSent) = 1
            /\ snsSent[1].Message.json = [status |-> "pass",
                                          payload |-> [result |-> handlerOutcome.value]]
            /\ snsSent[1].MessageAttributes["status"].StringValue = "pass"
       /\ handlerOutcome.kind = "threw" =>
            /\ Len(snsSent) = 1
            /\ snsSent[1].Message.json = [status |-> "fail",
                                          payload |-> [error |-> handlerOutcome.value]]
            /\ snsSent[1].MessageAttributes["status"].StringValue = "fail"

\* publish was called with an attribute that is no string, number or array
InvalidAttributePassed ==
  /\ pubpc # "idle"
  /\ \E k \in OutKeySet :
       /\ pubArgs.attributes[k] # Absent
       /\ pubArgs.attributes[k].t \notin {"string", "number", "array"}

\* C10 as stated: publish with an attribute that is no string, number or
\* array raises the 'invalid attribute type' error to its caller, sends
\* nothing and does not retry.
C10_InvalidAttributeRaised ==
  InvalidAttributePassed =>
    /\ pubpc = "threw"
    /\ snsSent = <<>>

\* C10 amended: publish with an attribute that is no string, number or array
\* does not raise: it returns (resolves with) the 'Invalid MessageAttribute
\* type' error naming the type of the first such value, at once, sends
\* nothing to the topic and does not retry.
C10_InvalidAttributeReturned ==
  /\ pubpc # "threw"
  /\ InvalidAttributePassed =>
       /\ pubpc = "returned"
       /\ pubReturn.kind = "error"
       /\ pubReturn.error = "Invalid MessageAttribute type"
       /\ pubReturn.typeof \in {"object", "boolean", "undefined"}
       /\ snsSent = <<>>
       /\ caller = "withEventStream" => espc = "returned" /\ esReturn = pubReturn

C10_Witness ==
  /\ caller = "publish"
  /\ pubpc = "returned"
  /\ pubArgs.attributes["entity"] = Str("abc")
  /\ pubArgs.attributes["operation"] = Obj
  /\ pubReturn = InvalidTypeError(Obj)
  /\ snsSent = <<>>

====
